---- MODULE Spec2Model ----
(***************************************************************************)
(* bAInoculars (src/bird_app.py): the camera thread that publishes frames  *)
(* into global_frame under frame_lock, capture_and_identify, and the Tk    *)
(* application BAIApp with its Menu / Explore / Arcade views, freeze flags *)
(* and the pause-compensated Arcade countdown.                             *)
(*                                                                         *)
(* Time is counted in whole seconds (time.time(), and the second-          *)
(* resolution timestamp of capture_and_identify).  A Tk after(ms) timer    *)
(* of 2000 ms is due 2 seconds after it was scheduled; the 33/100/300 ms   *)
(* self-rescheduling callbacks are due within the second they were         *)
(* scheduled in, so they may fire at any time while they are pending.      *)
(* Strings are sequences of one-character strings.                         *)
(***************************************************************************)
EXTENDS Integers, Sequences, FiniteSets, TLC

\* ------------------------------------------------------------------
\* Bounds of the model
\* ------------------------------------------------------------------
\* distinct images the frame source can deliver
NumFrames == 2
\* the clock stops at MaxTime seconds
MaxTime == 4
\* start_explore / start_arcade calls in one run
MaxEntries == 2
\* artifacts on disk before the user stops requesting captures
MaxFiles == 2
\* self.arcade_total is 60 in the source (line 158); the checked sessions
\* are shortened so that the countdown expires before MaxTime
arcade_total == 2

\* ------------------------------------------------------------------
\* Program constants
\* ------------------------------------------------------------------
\* after(2000, ...): result and final-score display, in milliseconds
DISPLAY_MS == 2000
\* conf >= 50
CONF_MIN == 50
\* scores are probabilities in hundredths: 92 is 0.92
SCORE_DEN == 100

\* global_frame = None: no frame
NoFrame == 0
\* arcade_start_time = NoTime, pause_start_time = NoTime: no time
NoTime == -1
Frames == 1..NumFrames

\* ------------------------------------------------------------------
\* Strings
\* ------------------------------------------------------------------
Unknown == <<"U","n","k","n","o","w","n">>
looney == <<"l","o","o","n","e","y">>
bird == <<"b","i","r","d">>
\* labels of the classifier
OwlLabel == <<"B","A","R","N"," ","O","W","L">>
LooneyLabel == <<"L","O","O","N","E","Y"," ","B","I","R","D","S">>
Labels == {OwlLabel, LooneyLabel}

UpperChars == <<"A","B","D","E","I","L","N","O","R","S","U","W","Y">>
LowerChars == <<"a","b","d","e","i","l","n","o","r","s","u","w","y">>

\* str.lower() on one character
LowerChar(c) ==
  IF \E i \in 1..Len(UpperChars) : UpperChars[i] = c
  THEN LowerChars[CHOOSE i \in 1..Len(UpperChars) : UpperChars[i] = c]
  ELSE c

\* str.lower()
Lower(s) == [i \in 1..Len(s) |-> LowerChar(s[i])]

\* sub in s
Contains(s, sub) ==
  \E k \in 0..(Len(s) - Len(sub)) :
     \A i \in 1..Len(sub) : s[k + i] = sub[i]

\* s.replace(" ", "_")
ReplaceSpaces(s) == [i \in 1..Len(s) |-> IF s[i] = " " THEN "_" ELSE s[i]]

\* ------------------------------------------------------------------
\* Decision policy of capture_and_identify (lines 88-99)
\* ------------------------------------------------------------------
\* conf = top_pred["score"] * 100, kept as a multiple of 1/SCORE_DEN percent
ConfOf(score) == score * 100

AcceptedMutStrict(label, conf) ==
  conf > CONF_MIN * SCORE_DEN /\ ~Contains(Lower(label), looney)

\* conf >= 50 and "looney" not in label.lower()
Accepted(label, conf) ==
  conf >= CONF_MIN * SCORE_DEN /\ ~Contains(Lower(label), looney)

\* (bird_name, confidence) for a prediction list
Resolve(predictions) ==
  IF predictions # <<>>
  THEN LET label == predictions[1].label
           conf == ConfOf(predictions[1].score)
       IN IF Accepted(label, conf)
          THEN [bird_name |-> label, confidence |-> conf]
          ELSE [bird_name |-> Unknown, confidence |-> conf]
  ELSE [bird_name |-> Unknown, confidence |-> 0]

\* the classifier's possible outputs: a ranked list, possibly empty
\* (scores in hundredths, on both sides of the threshold)
Scores == {49, 50}
Pred == [label : Labels, score : Scores]
Predictions ==
  {<<>>} \cup {<<p>> : p \in Pred}
         \cup {<<[label |-> LooneyLabel, score |-> 50],
                  [label |-> OwlLabel, score |-> 50]>>}

\* ------------------------------------------------------------------
\* State
\* ------------------------------------------------------------------
VARIABLES
  global_frame,        \* NoFrame or the latest published frame
  frame_lock,          \* "free", "cam" or "ui": who holds frame_lock
  cam_pc,              \* CameraThread.run: "read", "acquire", "publish", "sleep",
                       \* "done"
  cam_frame,           \* the frame cap.read() returned in this cycle
  packed,              \* the frames whose winfo_manager() is not ""
  freeze_explore,
  arcade_running,
  freeze_arcade,
  arcade_start_time,
  pause_start_time,
  arcade_score,
  arcade_birds,
  explore_label,       \* what explore_label shows: "none", "live", "result"
  arcade_label,        \* "none", "live", "result", "final"
  stack,               \* the calls the running event handler still makes
  ui_pc,               \* position in the call on top of the stack
  loc,                 \* locals of the running call
  timers,              \* pending after(2000, ...) callbacks, in firing order
  chains,              \* pending self-rescheduling callbacks, per callback
  now,                 \* the clock, in seconds
  files,               \* the artifacts on disk
  epoch,               \* history: start_explore / start_arcade calls so far
  hist,                \* history of the current Arcade session
  stopped,             \* CameraThread.stopped
  cap,                 \* CameraThread.cap: "open" or "released"
  recent               \* history: the modes where a capture request was
                       \* accepted and, since then, no after() callback
                       \* has fired and the clock has not advanced

vars == <<global_frame, frame_lock, cam_pc, cam_frame, packed, freeze_explore,
          arcade_running, freeze_arcade, arcade_start_time, pause_start_time,
          arcade_score, arcade_birds, explore_label, arcade_label, stack,
          ui_pc, loc, timers, chains, now, files, epoch, hist, stopped, cap,
          recent>>

quitVars == <<stopped, cap>>
camVars == <<cam_pc, cam_frame>>
arcadeVars == <<arcade_running, freeze_arcade, arcade_start_time,
                pause_start_time, arcade_score, arcade_birds>>
labelVars == <<explore_label, arcade_label>>

ChainNames == {"update_explore_frame", "poll_button_explore",
               "update_arcade_frame", "poll_button_arcade"}

\* before a call has assigned them: no frame, no name; classified says
\* whether classifier(pil_image) was called
NoLoc == [ref |-> NoFrame, frame |-> NoFrame, ts |-> NoTime, classified |-> FALSE,
          preds |-> <<>>, bird_name |-> <<>>, confidence |-> 0]
NoHist == [expiries |-> 0, finals |-> 0, final_at |-> NoTime]

\* frame.copy(): an independent array with the same pixels
Copy(frame) == frame

\* CameraThread.__init__ (lines 41-50) has read once; BAIApp.__init__
\* (lines 141-169) shows the menu
Init ==
  /\ global_frame \in Frames \cup {NoFrame}
  /\ frame_lock = "free"
  /\ cam_pc = "read"
  /\ cam_frame = NoFrame
  /\ packed = {"menu"}
  /\ freeze_explore = FALSE
  /\ arcade_running = FALSE
  /\ freeze_arcade = FALSE
  /\ arcade_start_time = NoTime
  /\ pause_start_time = NoTime
  /\ arcade_score = 0
  /\ arcade_birds = {}
  /\ explore_label = "none"
  /\ arcade_label = "none"
  /\ stack = <<>>
  /\ ui_pc = "idle"
  /\ loc = NoLoc
  /\ timers = <<>>
  /\ chains = [c \in ChainNames |-> 0]
  /\ now = 0
  /\ files = {}
  /\ epoch = 0
  /\ hist = NoHist
  /\ stopped = FALSE
  /\ cap = "open"
  /\ recent = {}

\* ------------------------------------------------------------------
\* frame_lock
\* ------------------------------------------------------------------
LockFreeMutNoLock == TRUE

\* threading.Lock: acquire succeeds only while nobody holds it
LockFree == frame_lock = "free"

\* ------------------------------------------------------------------
\* CameraThread.run (lines 52-60)
\* ------------------------------------------------------------------
uiVars == <<packed, freeze_explore, arcade_running, freeze_arcade,
            arcade_start_time, pause_start_time, arcade_score, arcade_birds,
            explore_label, arcade_label, stack, ui_pc, loc, timers, chains,
            now, files, epoch, hist>>

PublishedMutFailClears(ret, frame) == IF ret THEN Copy(frame) ELSE NoFrame

\* the buffer after one cycle: global_frame = frame.copy() only if ret
Published(ret, frame) == IF ret THEN Copy(frame) ELSE global_frame

\* what cap.read() can return: a released VideoCapture gives no frame
ReadResults == IF cap = "open" THEN BOOLEAN ELSE {FALSE}

\* ret, frame = self.cap.read(): a frame, or a failed read, which skips
\* the cycle
CameraRead ==
  /\ cam_pc = "read"
  /\ \E ret \in ReadResults :
       IF ret
       THEN /\ \E f \in Frames : cam_frame' = f
            /\ cam_pc' = "acquire"
            /\ UNCHANGED global_frame
       ELSE /\ cam_frame' = NoFrame
            /\ cam_pc' = "sleep"
            /\ global_frame' = Published(FALSE, NoFrame)
  /\ UNCHANGED frame_lock
  /\ UNCHANGED uiVars
  /\ UNCHANGED <<quitVars, recent>>

\* with frame_lock:
CameraAcquire ==
  /\ cam_pc = "acquire"
  /\ LockFree
  /\ frame_lock' = "cam"
  /\ cam_pc' = "publish"
  /\ UNCHANGED <<global_frame, cam_frame>>
  /\ UNCHANGED uiVars
  /\ UNCHANGED <<quitVars, recent>>

\* global_frame = frame.copy(), and the end of the with block
CameraPublish ==
  /\ cam_pc = "publish"
  /\ global_frame' = Published(TRUE, cam_frame)
  /\ frame_lock' = "free"
  /\ cam_pc' = "sleep"
  /\ UNCHANGED cam_frame
  /\ UNCHANGED uiVars
  /\ UNCHANGED <<quitVars, recent>>

\* while not self.stopped: the loop goes on to the next read, or ends
LoopTest == IF stopped THEN "done" ELSE "read"

\* time.sleep(0.033), and back to the test at the top of the loop, where
\* the frame of this cycle is dead
CameraSleep ==
  /\ cam_pc = "sleep"
  /\ cam_pc' = LoopTest
  /\ cam_frame' = NoFrame
  /\ UNCHANGED <<global_frame, frame_lock>>
  /\ UNCHANGED uiVars
  /\ UNCHANGED <<quitVars, recent>>

\* one whole cycle of the loop at once: the read, and the with block, which
\* the lock makes atomic for every other holder of the lock
CameraCycle ==
  /\ cam_pc = "read"
  /\ LockFree
  /\ \E ret \in BOOLEAN, f \in Frames :
       global_frame' = Published(ret, f)
  /\ UNCHANGED <<frame_lock, cam_pc, cam_frame>>
  /\ UNCHANGED uiVars
  /\ UNCHANGED <<quitVars, recent>>

\* ------------------------------------------------------------------
\* The Tk event loop: one handler at a time; a handler's nested calls are
\* on the stack
\* ------------------------------------------------------------------
Idle == stack = <<>> /\ ui_pc = "idle"
Top == Head(stack)
At(op, pc) == stack # <<>> /\ Top = op /\ ui_pc = pc

\* return from the call on top of the stack
Return ==
  /\ stack' = Tail(stack)
  /\ ui_pc' = IF Tail(stack) = <<>> THEN "idle" ELSE "call"
  /\ loc' = NoLoc

\* widget.after(ms, callback) with ms >= 1000
After(ms, cb) ==
  Append(timers, [cb |-> cb, due |-> now + (ms \div 1000), epoch |-> epoch,
                  R |-> IF cb = "resume_arcade_update"
                        THEN arcade_total - (pause_start_time - arcade_start_time)
                        ELSE 0])

\* widget.after(33|100|300, callback): pending within the second
Reschedule(cb) == [chains EXCEPT ![cb] = @ + 1]

ShowFrameMutNoForget(frame) == packed \cup {frame}

\* show_frame (lines 220-224): pack_forget all three, pack the one
ShowFrame(frame) == (packed \ {"menu", "explore", "arcade"}) \cup {frame}

camAll == <<global_frame, frame_lock, cam_pc, cam_frame>>

\* with frame_lock: (the event loop blocks until the lock is free)
SnapAcquire ==
  /\ stack # <<>> /\ ui_pc = "lock"
  /\ LockFree
  /\ frame_lock' = "ui"
  /\ ui_pc' = "copy"
  /\ loc' = [loc EXCEPT !.ref = global_frame]
  /\ UNCHANGED <<global_frame, cam_pc, cam_frame>>
  /\ UNCHANGED <<packed, freeze_explore, arcadeVars, labelVars, stack, timers,
                 chains, now, files, epoch, hist>>
  /\ UNCHANGED <<quitVars, recent>>

SnapshotReleaseMutKeeps == "ui"

\* leaving the with block of a snapshot, by its end or by the return of
\* line 81, releases the lock
SnapshotRelease == "free"

\* frame = global_frame.copy() if global_frame is not None else None,
\* and the end of the with block
SnapCopy ==
  /\ stack # <<>> /\ ui_pc = "copy"
  /\ loc' = [loc EXCEPT !.frame = IF loc.ref # NoFrame THEN Copy(loc.ref) ELSE NoFrame]
  /\ frame_lock' = SnapshotRelease
  /\ ui_pc' = "snap"
  /\ UNCHANGED <<global_frame, cam_pc, cam_frame>>
  /\ UNCHANGED <<packed, freeze_explore, arcadeVars, labelVars, stack, timers,
                 chains, now, files, epoch, hist>>
  /\ UNCHANGED <<quitVars, recent>>

\* ------------------------------------------------------------------
\* capture_and_identify (lines 73-103), called by on_explore_capture with
\* mode "captured" and by on_arcade_capture with mode "arcade"
\* ------------------------------------------------------------------
CaptureOps == {"on_explore_capture", "on_arcade_capture"}
ModeOf(op) == IF op = "on_explore_capture" THEN "captured" ELSE "arcade"

\* f"{mode}_birds/bird_{timestamp}.jpg"
RawPath(mode, timestamp) == [dir |-> mode, name |-> bird, ts |-> timestamp]

\* f"{mode}_birds/{safe_label}_{timestamp}.jpg"
FinalPath(mode, bird_name, timestamp) ==
  [dir |-> mode, name |-> ReplaceSpaces(bird_name), ts |-> timestamp]

\* os.rename(raw_path, final_path): replaces an existing final_path
Rename(fs, raw_path, final_path) == (fs \ {raw_path}) \cup {final_path}

UserMayCapture == Cardinality(files) < MaxFiles

\* if global_frame is None: return "Unknown", 0, None
CaptureNoFrame ==
  /\ stack # <<>> /\ Top \in CaptureOps /\ ui_pc = "snap"
  /\ loc.frame = NoFrame
  /\ loc' = [loc EXCEPT !.bird_name = Unknown, !.confidence = 0]
  /\ ui_pc' = "ret"
  /\ UNCHANGED <<camAll, packed, freeze_explore, arcadeVars, labelVars, stack,
                 timers, chains, now, files, epoch, hist>>
  /\ UNCHANGED <<quitVars, recent>>

\* timestamp, raw_path, cv2.imwrite(raw_path, frame)
CapturePersist ==
  /\ stack # <<>> /\ Top \in CaptureOps /\ ui_pc = "snap"
  /\ loc.frame # NoFrame
  /\ loc' = [loc EXCEPT !.ts = now]
  /\ files' = files \cup {RawPath(ModeOf(Top), now)}
  /\ ui_pc' = "classify"
  /\ UNCHANGED <<camAll, packed, freeze_explore, arcadeVars, labelVars, stack,
                 timers, chains, now, epoch, hist>>
  /\ UNCHANGED <<quitVars, recent>>

\* predictions = classifier(pil_image), the decision, os.rename, return
CaptureClassify ==
  /\ stack # <<>> /\ Top \in CaptureOps /\ ui_pc = "classify"
  /\ \E predictions \in Predictions :
       LET r == Resolve(predictions) IN
       /\ loc' = [loc EXCEPT !.classified = TRUE, !.preds = predictions,
                             !.bird_name = r.bird_name,
                             !.confidence = r.confidence]
       /\ files' = Rename(files, RawPath(ModeOf(Top), loc.ts),
                          FinalPath(ModeOf(Top), r.bird_name, loc.ts))
  /\ ui_pc' = "ret"
  /\ UNCHANGED <<camAll, packed, freeze_explore, arcadeVars, labelVars, stack,
                 timers, chains, now, epoch, hist>>
  /\ UNCHANGED <<quitVars, recent>>

\* classifier(pil_image) or os.rename raises: nothing catches it before the
\* event loop, which reports it and abandons the whole callback, with what
\* the callback still had to call
CaptureRaise ==
  /\ stack # <<>> /\ Top \in CaptureOps /\ ui_pc = "classify"
  /\ stack' = <<>>
  /\ ui_pc' = "idle"
  /\ loc' = NoLoc
  /\ UNCHANGED <<camAll, packed, freeze_explore, arcadeVars, labelVars,
                 timers, chains, now, files, epoch, hist>>
  /\ UNCHANGED <<quitVars, recent>>

\* ------------------------------------------------------------------
\* Navigation (lines 220-247)
\* ------------------------------------------------------------------
\* back_to_menu
BackToMenu ==
  /\ arcade_running' = FALSE
  /\ packed' = ShowFrame("menu")

\* the menu's "Explore Mode" button: start_explore
StartExplore ==
  /\ Idle /\ "menu" \in packed
  /\ epoch < MaxEntries
  /\ packed' = ShowFrame("explore")
  /\ freeze_explore' = FALSE
  /\ stack' = <<"update_explore_frame", "poll_button_explore">>
  /\ ui_pc' = "call"
  /\ epoch' = epoch + 1
  /\ UNCHANGED <<camAll, arcadeVars, labelVars, loc, timers, chains, now,
                 files, hist>>
  /\ UNCHANGED <<quitVars, recent>>

\* the menu's "Arcade Mode" button: start_arcade
StartArcade ==
  /\ Idle /\ "menu" \in packed
  /\ epoch < MaxEntries
  /\ arcade_score' = 0
  /\ arcade_birds' = {}
  /\ arcade_running' = TRUE
  /\ freeze_arcade' = FALSE
  /\ arcade_start_time' = now
  /\ packed' = ShowFrame("arcade")
  /\ stack' = <<"update_arcade_frame", "poll_button_arcade">>
  /\ ui_pc' = "call"
  /\ epoch' = epoch + 1
  /\ hist' = NoHist
  /\ UNCHANGED <<camAll, freeze_explore, pause_start_time, labelVars, loc,
                 timers, chains, now, files>>
  /\ UNCHANGED <<quitVars, recent>>

\* Explore's "Back" button: back_to_menu
BackExplore ==
  /\ Idle /\ "explore" \in packed
  /\ BackToMenu
  /\ UNCHANGED <<camAll, freeze_explore, freeze_arcade, arcade_start_time,
                 pause_start_time, arcade_score, arcade_birds, labelVars,
                 stack, ui_pc, loc, timers, chains, now, files, epoch, hist>>
  /\ UNCHANGED <<quitVars, recent>>

\* ------------------------------------------------------------------
\* Explore (lines 252-293)
\* ------------------------------------------------------------------
\* <Button-1> on explore_label
ClickExplore ==
  /\ Idle /\ "explore" \in packed
  /\ UserMayCapture
  /\ stack' = <<"on_explore_capture">>
  /\ ui_pc' = "call"
  /\ UNCHANGED <<camAll, packed, freeze_explore, arcadeVars, labelVars, loc,
                 timers, chains, now, files, epoch, hist>>
  /\ UNCHANGED <<quitVars, recent>>

ExploreGateMutOpen == FALSE

\* on_explore_capture: if self.freeze_explore: return
ExploreGate == freeze_explore

\* on_explore_capture up to the lock of capture_and_identify
ExploreCaptureBegin ==
  /\ At("on_explore_capture", "call")
  /\ IF ExploreGate
     THEN Return /\ UNCHANGED freeze_explore
     ELSE /\ freeze_explore' = TRUE
          /\ ui_pc' = "lock"
          /\ UNCHANGED <<stack, loc>>
  /\ UNCHANGED <<camAll, packed, arcadeVars, labelVars, timers, chains, now,
                 files, epoch, hist>>
  /\ recent' = IF ExploreGate THEN recent ELSE recent \cup {"explore"}
  /\ UNCHANGED quitVars

NothingCapturedMutUnchecked(captured_frame) == FALSE

\* if captured_frame is None (lines 257 and 304)
NothingCaptured(captured_frame) == captured_frame = NoFrame

\* on_explore_capture after capture_and_identify has returned
ExploreCaptureEnd ==
  /\ At("on_explore_capture", "ret")
  /\ IF NothingCaptured(loc.frame)
     THEN /\ freeze_explore' = FALSE
          /\ UNCHANGED <<explore_label, timers>>
     ELSE /\ explore_label' = "result"
          /\ timers' = After(DISPLAY_MS, "resume_explore")
          /\ UNCHANGED freeze_explore
  /\ Return
  /\ UNCHANGED <<camAll, packed, arcadeVars, arcade_label, chains, now, files,
                 epoch, hist>>
  /\ UNCHANGED <<quitVars, recent>>

\* update_explore_frame up to its lock
UpdateExploreBegin ==
  /\ At("update_explore_frame", "call")
  /\ IF "explore" \notin packed
     THEN Return /\ UNCHANGED chains
     ELSE IF ~freeze_explore
          THEN ui_pc' = "lock" /\ UNCHANGED <<stack, loc, chains>>
          ELSE chains' = Reschedule("update_explore_frame") /\ Return
  /\ UNCHANGED <<camAll, packed, freeze_explore, arcadeVars, labelVars, timers,
                 now, files, epoch, hist>>
  /\ UNCHANGED <<quitVars, recent>>

\* update_explore_frame after its lock: render, after(33, ...)
UpdateExploreEnd ==
  /\ At("update_explore_frame", "snap")
  /\ explore_label' = IF loc.frame # NoFrame THEN "live" ELSE explore_label
  /\ chains' = Reschedule("update_explore_frame")
  /\ Return
  /\ UNCHANGED <<camAll, packed, freeze_explore, arcadeVars, arcade_label,
                 timers, now, files, epoch, hist>>
  /\ UNCHANGED <<quitVars, recent>>

\* GPIO.input(BUTTON_PIN) == GPIO.LOW: the button, as the user holds it
ButtonLevels == IF UserMayCapture THEN BOOLEAN ELSE {FALSE}

\* poll_button_explore up to its call of on_explore_capture
PollExploreBegin ==
  /\ At("poll_button_explore", "call")
  /\ IF "explore" \notin packed
     THEN chains' = Reschedule("poll_button_explore") /\ Return
     ELSE \E low \in ButtonLevels :
            IF low /\ ~freeze_explore
            THEN /\ stack' = <<"on_explore_capture", "poll_button_explore_after">>
                              \o Tail(stack)
                 /\ UNCHANGED <<ui_pc, loc, chains>>
            ELSE chains' = Reschedule("poll_button_explore") /\ Return
  /\ UNCHANGED <<camAll, packed, freeze_explore, arcadeVars, labelVars, timers,
                 now, files, epoch, hist>>
  /\ UNCHANGED <<quitVars, recent>>

\* poll_button_explore line 291: self.after(300, self.poll_button_explore)
PollExploreAfter ==
  /\ At("poll_button_explore_after", "call")
  /\ chains' = Reschedule("poll_button_explore")
  /\ Return
  /\ UNCHANGED <<camAll, packed, freeze_explore, arcadeVars, labelVars, timers,
                 now, files, epoch, hist>>
  /\ UNCHANGED <<quitVars, recent>>

\* ------------------------------------------------------------------
\* Arcade (lines 298-374)
\* ------------------------------------------------------------------
\* remaining = self.arcade_total - (time.time() - self.arcade_start_time)
Remaining(start_time) == arcade_total - (now - start_time)

\* a call of show_arcade_final made as the last statement of the caller
CallShowArcadeFinal ==
  /\ stack' = <<"show_arcade_final">>
               \o (IF stack = <<>> THEN <<>> ELSE Tail(stack))
  /\ ui_pc' = "lock"
  /\ UNCHANGED loc

\* <Button-1> on arcade_label
ClickArcade ==
  /\ Idle /\ "arcade" \in packed
  /\ UserMayCapture
  /\ stack' = <<"on_arcade_capture">>
  /\ ui_pc' = "call"
  /\ UNCHANGED <<camAll, packed, freeze_explore, arcadeVars, labelVars, loc,
                 timers, chains, now, files, epoch, hist>>
  /\ UNCHANGED <<quitVars, recent>>

ArcadeGateMutOpen == FALSE

\* on_arcade_capture: if not self.arcade_running or self.freeze_arcade: return
ArcadeGate == ~arcade_running \/ freeze_arcade

\* on_arcade_capture up to the lock of capture_and_identify
ArcadeCaptureBegin ==
  /\ At("on_arcade_capture", "call")
  /\ IF ArcadeGate
     THEN Return /\ UNCHANGED <<freeze_arcade, pause_start_time>>
     ELSE /\ freeze_arcade' = TRUE
          /\ pause_start_time' = now
          /\ ui_pc' = "lock"
          /\ UNCHANGED <<stack, loc>>
  /\ UNCHANGED <<camAll, packed, freeze_explore, arcade_running,
                 arcade_start_time, arcade_score, arcade_birds, labelVars,
                 timers, chains, now, files, epoch, hist>>
  /\ recent' = IF ArcadeGate THEN recent ELSE recent \cup {"arcade"}
  /\ UNCHANGED quitVars

ScoredMutEveryCapture(bird_name, conf) ==
  IF bird_name # Unknown /\ conf >= CONF_MIN * SCORE_DEN
  THEN [birds |-> arcade_birds \cup {bird_name}, score |-> arcade_score + 1]
  ELSE [birds |-> arcade_birds, score |-> arcade_score]

\* lines 307-310: a novel identified label adds itself and one point
Scored(bird_name, conf) ==
  IF bird_name # Unknown /\ conf >= CONF_MIN * SCORE_DEN
  THEN IF bird_name \notin arcade_birds
       THEN [birds |-> arcade_birds \cup {bird_name}, score |-> arcade_score + 1]
       ELSE [birds |-> arcade_birds, score |-> arcade_score]
  ELSE [birds |-> arcade_birds, score |-> arcade_score]

\* on_arcade_capture after capture_and_identify has returned
ArcadeCaptureEnd ==
  /\ At("on_arcade_capture", "ret")
  /\ IF NothingCaptured(loc.frame)
     THEN /\ freeze_arcade' = FALSE
          /\ UNCHANGED <<arcade_score, arcade_birds, arcade_label, timers>>
     ELSE /\ arcade_birds' = Scored(loc.bird_name, loc.confidence).birds
          /\ arcade_score' = Scored(loc.bird_name, loc.confidence).score
          /\ arcade_label' = "result"
          /\ timers' = After(DISPLAY_MS, "resume_arcade_update")
          /\ UNCHANGED freeze_arcade
  /\ Return
  /\ UNCHANGED <<camAll, packed, freeze_explore, arcade_running,
                 arcade_start_time, pause_start_time, explore_label, chains,
                 now, files, epoch, hist>>
  /\ UNCHANGED <<quitVars, recent>>

\* poll_button_arcade up to its call of on_arcade_capture
PollArcadeBegin ==
  /\ At("poll_button_arcade", "call")
  /\ IF ~arcade_running \/ "arcade" \notin packed
     THEN chains' = Reschedule("poll_button_arcade") /\ Return
     ELSE \E low \in ButtonLevels :
            IF low /\ ~freeze_arcade
            THEN /\ stack' = <<"on_arcade_capture", "poll_button_arcade_after">>
                              \o Tail(stack)
                 /\ UNCHANGED <<ui_pc, loc, chains>>
            ELSE chains' = Reschedule("poll_button_arcade") /\ Return
  /\ UNCHANGED <<camAll, packed, freeze_explore, arcadeVars, labelVars, timers,
                 now, files, epoch, hist>>
  /\ UNCHANGED <<quitVars, recent>>

\* poll_button_arcade line 331: self.after(300, self.poll_button_arcade)
PollArcadeAfter ==
  /\ At("poll_button_arcade_after", "call")
  /\ chains' = Reschedule("poll_button_arcade")
  /\ Return
  /\ UNCHANGED <<camAll, packed, freeze_explore, arcadeVars, labelVars, timers,
                 now, files, epoch, hist>>
  /\ UNCHANGED <<quitVars, recent>>

ExpiredMutIgnoresFreeze == Remaining(arcade_start_time) <= 0

\* lines 338-341: the tick sees the countdown at zero, and is not frozen
Expired == ~freeze_arcade /\ Remaining(arcade_start_time) <= 0

\* update_arcade_frame up to its lock, or to show_arcade_final
UpdateArcadeBegin ==
  /\ At("update_arcade_frame", "call")
  /\ IF ~arcade_running \/ "arcade" \notin packed
     THEN Return /\ UNCHANGED <<arcade_running, chains, hist>>
     ELSE IF Expired
          THEN /\ arcade_running' = FALSE
               /\ CallShowArcadeFinal
               /\ hist' = [hist EXCEPT !.expiries = @ + 1, !.finals = @ + 1,
                                       !.final_at = now]
               /\ UNCHANGED chains
          ELSE IF ~freeze_arcade
               THEN /\ ui_pc' = "lock"
                    /\ UNCHANGED <<stack, loc, arcade_running, chains, hist>>
               ELSE /\ chains' = Reschedule("update_arcade_frame")
                    /\ Return
                    /\ UNCHANGED <<arcade_running, hist>>
  /\ UNCHANGED <<camAll, packed, freeze_explore, freeze_arcade,
                 arcade_start_time, pause_start_time, arcade_score,
                 arcade_birds, labelVars, timers, now, files, epoch>>
  /\ UNCHANGED <<quitVars, recent>>

\* update_arcade_frame after its lock: render, after(33, ...)
UpdateArcadeEnd ==
  /\ At("update_arcade_frame", "snap")
  /\ arcade_label' = IF loc.frame # NoFrame THEN "live" ELSE arcade_label
  /\ chains' = Reschedule("update_arcade_frame")
  /\ Return
  /\ UNCHANGED <<camAll, packed, freeze_explore, arcadeVars, explore_label,
                 timers, now, files, epoch, hist>>
  /\ UNCHANGED <<quitVars, recent>>

\* show_arcade_final after its lock: render, after(2000, self.back_to_menu)
ShowArcadeFinalEnd ==
  /\ At("show_arcade_final", "snap")
  /\ arcade_label' = IF loc.frame # NoFrame THEN "final" ELSE arcade_label
  /\ timers' = After(DISPLAY_MS, "back_to_menu")
  /\ Return
  /\ UNCHANGED <<camAll, packed, freeze_explore, arcadeVars, explore_label,
                 chains, now, files, epoch, hist>>
  /\ UNCHANGED <<quitVars, recent>>

EarlyFinalMutAlways == TRUE

\* end_arcade_early: if self.arcade_running
EarlyFinal == arcade_running

\* Arcade's "Back" button: end_arcade_early
BackArcade ==
  /\ Idle /\ "arcade" \in packed
  /\ IF EarlyFinal
     THEN /\ arcade_running' = FALSE
          /\ CallShowArcadeFinal
          /\ hist' = [hist EXCEPT !.finals = @ + 1, !.final_at = now]
          /\ UNCHANGED packed
     ELSE /\ BackToMenu
          /\ UNCHANGED <<stack, ui_pc, loc, hist>>
  /\ UNCHANGED <<camAll, freeze_explore, freeze_arcade, arcade_start_time,
                 pause_start_time, arcade_score, arcade_birds, labelVars,
                 timers, chains, now, files, epoch>>
  /\ UNCHANGED <<quitVars, recent>>

\* ------------------------------------------------------------------
\* Timers and the clock
\* ------------------------------------------------------------------
\* the after(2000, ...) callback that fires next is cb, and is due
TimerDue(cb) ==
  Idle /\ (IF timers = <<>> THEN FALSE
           ELSE Head(timers).cb = cb /\ Head(timers).due <= now)

\* no after(2000, ...) callback is due
NoneDue == IF timers = <<>> THEN TRUE ELSE Head(timers).due > now

\* resume_explore (lines 268-269)
ResumeExplore ==
  /\ TimerDue("resume_explore")
  /\ timers' = Tail(timers)
  /\ freeze_explore' = FALSE
  /\ UNCHANGED <<camAll, packed, arcadeVars, labelVars, stack, ui_pc, loc,
                 chains, now, files, epoch, hist>>
  /\ recent' = {}
  /\ UNCHANGED quitVars

\* resume_arcade_update (lines 320-323)
ResumeArcadeUpdate ==
  /\ TimerDue("resume_arcade_update")
  /\ timers' = Tail(timers)
  /\ LET pause_duration == now - pause_start_time
     IN arcade_start_time' = arcade_start_time + pause_duration
  /\ freeze_arcade' = FALSE
  /\ UNCHANGED <<camAll, packed, freeze_explore, arcade_running,
                 pause_start_time, arcade_score, arcade_birds, labelVars,
                 stack, ui_pc, loc, chains, now, files, epoch, hist>>
  /\ recent' = {}
  /\ UNCHANGED quitVars

\* back_to_menu, scheduled by show_arcade_final
AutoBackToMenu ==
  /\ TimerDue("back_to_menu")
  /\ timers' = Tail(timers)
  /\ BackToMenu
  /\ UNCHANGED <<camAll, freeze_explore, freeze_arcade, arcade_start_time,
                 pause_start_time, arcade_score, arcade_birds, labelVars,
                 stack, ui_pc, loc, chains, now, files, epoch, hist>>
  /\ recent' = {}
  /\ UNCHANGED quitVars

\* a pending after(33|100|300, cb) callback fires
FireChain ==
  /\ Idle
  /\ \E cb \in ChainNames :
       /\ chains[cb] > 0
       /\ chains' = [chains EXCEPT ![cb] = @ - 1]
       /\ stack' = <<cb>>
  /\ ui_pc' = "call"
  /\ UNCHANGED <<camAll, packed, freeze_explore, arcadeVars, labelVars, loc,
                 timers, now, files, epoch, hist>>
  /\ recent' = {}
  /\ UNCHANGED quitVars

\* a second passes: while the classifier runs, or while the event loop
\* waits and no after(2000, ...) callback is due
Tick ==
  /\ now < MaxTime
  /\ ui_pc = "classify" \/ (Idle /\ NoneDue)
  /\ now' = now + 1
  /\ UNCHANGED <<camAll, packed, freeze_explore, arcadeVars, labelVars, stack,
                 ui_pc, loc, timers, chains, files, epoch, hist>>
  /\ recent' = {}
  /\ UNCHANGED quitVars

\* ------------------------------------------------------------------
\* on_quit (lines 379-382) and CameraThread.stop (lines 62-64)
\* ------------------------------------------------------------------
appVars == <<camAll, packed, freeze_explore, arcadeVars, labelVars, loc,
             timers, chains, now, files, epoch, hist, recent>>

\* Escape, the window's close button or the menu's "Quit": on_quit calls
\* camera_thread.stop(), whose first statement is self.stopped = True
OnQuit ==
  /\ Idle
  /\ stack' = <<"on_quit">>
  /\ ui_pc' = "release"
  /\ stopped' = TRUE
  /\ UNCHANGED cap
  /\ UNCHANGED appVars

\* stop: self.cap.release(), without waiting for the thread
StopRelease ==
  /\ At("on_quit", "release")
  /\ cap' = "released"
  /\ ui_pc' = "destroy"
  /\ UNCHANGED <<stack, stopped>>
  /\ UNCHANGED appVars

\* GPIO.cleanup() and self.destroy(): the event loop ends
QuitDestroy ==
  /\ At("on_quit", "destroy")
  /\ stack' = <<>>
  /\ ui_pc' = "destroyed"
  /\ UNCHANGED <<stopped, cap>>
  /\ UNCHANGED appVars

\* the event loop's steps
UiStep ==
  \/ SnapAcquire \/ SnapCopy
  \/ CaptureNoFrame \/ CapturePersist \/ CaptureClassify
  \/ StartExplore \/ StartArcade \/ BackExplore \/ BackArcade
  \/ ClickExplore \/ ExploreCaptureBegin \/ ExploreCaptureEnd
  \/ UpdateExploreBegin \/ UpdateExploreEnd
  \/ PollExploreBegin \/ PollExploreAfter
  \/ ClickArcade \/ ArcadeCaptureBegin \/ ArcadeCaptureEnd
  \/ UpdateArcadeBegin \/ UpdateArcadeEnd \/ ShowArcadeFinalEnd
  \/ PollArcadeBegin \/ PollArcadeAfter
  \/ FireChain

\* the after(2000, ...) callbacks and the clock
TimeStep == ResumeExplore \/ ResumeArcadeUpdate \/ AutoBackToMenu \/ Tick

\* The application, with each cycle of the camera thread taken as one step.
Next == CameraCycle \/ UiStep \/ TimeStep

Spec == Init /\ [][Next]_vars

\* The camera thread statement by statement against the event loop, within
\* one second: every interleaving of a publish with the snapshots.
NextLock ==
  CameraRead \/ CameraAcquire \/ CameraPublish \/ CameraSleep \/ UiStep

SpecLock == Init /\ [][NextLock]_vars

\* The same, with the shutdown: stop() statement by statement against the
\* loop of the camera thread.
NextQuit ==
  \/ CameraRead \/ CameraAcquire \/ CameraPublish \/ CameraSleep
  \/ UiStep
  \/ OnQuit \/ StopRelease \/ QuitDestroy

SpecQuit == Init /\ [][NextQuit]_vars

\* what a running callback of Explore does next
ExploreHandlerStep ==
  \/ SnapAcquire \/ SnapCopy
  \/ CaptureNoFrame \/ CapturePersist \/ CaptureClassify \/ CaptureRaise
  \/ ExploreCaptureBegin \/ ExploreCaptureEnd
  \/ UpdateExploreBegin \/ UpdateExploreEnd
  \/ PollExploreBegin \/ PollExploreAfter

\* Explore alone, with the failures of the pipeline.
NextLive ==
  \/ CameraCycle
  \/ StartExplore \/ BackExplore \/ ClickExplore
  \/ ExploreHandlerStep
  \/ FireChain \/ ResumeExplore \/ Tick

\* The event loop runs a callback to its end, fires the callbacks that are
\* pending, and time passes; the user owes nothing.
SpecLive ==
  /\ Init /\ [][NextLive]_vars
  /\ WF_vars(ExploreHandlerStep)
  /\ SF_vars(FireChain)
  /\ SF_vars(ResumeExplore)
  /\ SF_vars(Tick)

\* ------------------------------------------------------------------
\* Properties
\* ------------------------------------------------------------------
\* the event loop is inside a with frame_lock block
Snapshotting == stack # <<>> /\ ui_pc = "copy"

\* C1: a snapshot copies exactly one published frame, the latest: while
\* the event loop is inside its with block it holds the lock, the camera
\* thread is not inside its own, and the array being copied is the one
\* global_frame holds, so that the copy that leaves the block is a copy of
\* the most recent completed publish.
C1_SnapshotIsLatestPublish ==
  /\ Snapshotting =>
       /\ frame_lock = "ui"
       /\ cam_pc # "publish"
       /\ loc.ref = global_frame
  /\ (stack # <<>> /\ ui_pc = "snap") => loc.frame = loc.ref

\* a snapshot is being copied while the camera thread waits at the lock
\* with another frame
C1_Witness ==
  /\ Snapshotting
  /\ loc.ref \in Frames
  /\ cam_pc = "acquire"
  /\ cam_frame # loc.ref

\* C10: a failed read leaves global_frame as it was, a successful read's
\* publish replaces it with the frame read, and a non-empty buffer never
\* becomes empty again.
C10_BufferOnlyReplaced ==
  [][ /\ (cam_pc = "read" /\ cam_pc' = "sleep") => global_frame' = global_frame
      /\ (cam_pc = "publish" /\ cam_pc' = "sleep") =>
            (global_frame' = cam_frame /\ cam_frame \in Frames)
      /\ global_frame # NoFrame => global_frame' # NoFrame
      /\ global_frame' # global_frame => cam_pc = "publish" ]_vars

\* after a failed read, with the buffer still holding a frame
C10_Witness ==
  /\ cam_pc = "sleep"
  /\ cam_frame = NoFrame
  /\ global_frame \in Frames

\* capture_and_identify has returned to its caller
Returned == stack # <<>> /\ Top \in CaptureOps /\ ui_pc = "ret"

\* C2: the decision policy on a non-empty buffer: an empty prediction list
\* gives ("Unknown", 0); a top confidence below 50 gives "Unknown"; a top
\* confidence of at least 50 gives "Unknown" for the excluded label and the
\* top label otherwise; a non-empty list always returns the top
\* prediction's confidence.
C2_DecisionPolicy ==
  (Returned /\ loc.classified) =>
     IF loc.preds = <<>>
     THEN loc.bird_name = Unknown /\ loc.confidence = 0
     ELSE LET top == loc.preds[1] IN
          /\ loc.confidence = top.score * 100
          /\ top.score * 100 < 50 * SCORE_DEN => loc.bird_name = Unknown
          /\ (top.score * 100 >= 50 * SCORE_DEN /\ top.label = LooneyLabel)
                => loc.bird_name = Unknown
          /\ (top.score * 100 >= 50 * SCORE_DEN /\ top.label # LooneyLabel)
                => loc.bird_name = top.label

\* the excluded label came first with a confidence of exactly 50, ahead of
\* an acceptable second prediction, and was rejected with its confidence
C2_Witness ==
  /\ Returned /\ loc.classified
  /\ Len(loc.preds) = 2
  /\ loc.preds[1].label = LooneyLabel
  /\ loc.bird_name = Unknown
  /\ loc.confidence = 50 * SCORE_DEN

\* the capture on top of the stack found the buffer empty
EmptyCapture ==
  /\ stack # <<>> /\ Top \in CaptureOps
  /\ ui_pc \in {"copy", "snap", "ret"}
  /\ loc.ref = NoFrame

FreezeOf(op) == IF op = "on_explore_capture" THEN freeze_explore ELSE freeze_arcade

\* C3: a capture that finds the buffer empty returns ("Unknown", 0, no
\* frame) without persisting and without classifying, and its caller
\* clears its freeze flag in the same callback, renders nothing, schedules
\* no resume and leaves score and seen labels alone.
C3_EmptyBufferCapture ==
  /\ [](EmptyCapture =>
          /\ ~loc.classified
          /\ FreezeOf(Top)
          /\ ui_pc = "ret" =>
               (loc.bird_name = Unknown /\ loc.confidence = 0
                  /\ loc.frame = NoFrame))
  /\ [][EmptyCapture =>
          /\ UNCHANGED <<files, arcade_score, arcade_birds, timers,
                         explore_label, arcade_label>>
          /\ ui_pc' # "classify"
          /\ (ui_pc = "ret" /\ ui_pc' # "ret") =>
                (stack' = Tail(stack)
                   /\ IF Top = "on_explore_capture"
                      THEN ~freeze_explore' ELSE ~freeze_arcade')]_vars

\* an Arcade capture has returned the sentinel to on_arcade_capture
C3_Witness ==
  /\ EmptyCapture
  /\ Top = "on_arcade_capture"
  /\ ui_pc = "ret"
  /\ loc.bird_name = Unknown /\ loc.confidence = 0 /\ loc.frame = NoFrame

\* the handler on top of the stack returns to its caller here, or waits
ReturnsOrWaits ==
  \/ stack' = stack /\ ui_pc' = ui_pc
  \/ stack' = Tail(stack) /\ ui_pc' \in {"idle", "call"}

\* a capture request has arrived, by a click or by the button, and the
\* gate of its mode is closed
GatedRequest ==
  \/ At("on_explore_capture", "call") /\ freeze_explore
  \/ At("on_arcade_capture", "call") /\ (~arcade_running \/ freeze_arcade)
  \/ At("poll_button_explore", "call") /\ freeze_explore
  \/ At("poll_button_arcade", "call") /\ (~arcade_running \/ freeze_arcade)

\* C4: a capture request that arrives while the mode's freeze flag is set,
\* or in Arcade while running is false, returns at once: nothing is
\* persisted, the classifier is not reached, score and seen labels, the
\* freeze flags and the pause-start time are unchanged, and no resume is
\* scheduled.
C4_GatedRequestIsNoOp ==
  [][GatedRequest =>
       /\ ReturnsOrWaits
       /\ ui_pc' \notin {"lock", "classify"}
       /\ UNCHANGED <<files, arcade_score, arcade_birds, freeze_explore,
                      freeze_arcade, pause_start_time, arcade_start_time,
                      timers, explore_label, arcade_label, packed>>]_vars

\* a click arrives in Explore while the result of the previous capture is
\* on display
C4_Witness ==
  /\ At("on_explore_capture", "call")
  /\ freeze_explore
  /\ explore_label = "result"
  /\ timers # <<>>
  /\ files # {}

\* the label of the capture that has returned is an identified one
Identified ==
  /\ ~NothingCaptured(loc.frame)
  /\ loc.bird_name # Unknown
  /\ loc.confidence >= 50 * SCORE_DEN

\* C5: the score is the number of distinct labels seen in the session: an
\* identified label adds one the first time and nothing afterwards, any
\* other capture adds nothing, and entering Arcade resets both.
C5_ScoreCountsDistinctLabels ==
  /\ [](arcade_score = Cardinality(arcade_birds))
  /\ [][(At("on_arcade_capture", "ret") /\ stack' # stack) =>
          /\ arcade_birds' = IF Identified
                             THEN arcade_birds \cup {loc.bird_name}
                             ELSE arcade_birds
          /\ arcade_score' = IF Identified /\ loc.bird_name \notin arcade_birds
                             THEN arcade_score + 1
                             ELSE arcade_score]_vars
  /\ [][(epoch' # epoch /\ "arcade" \in packed') =>
          (arcade_score' = 0 /\ arcade_birds' = {})]_vars
  /\ [][(arcade_score' # arcade_score \/ arcade_birds' # arcade_birds) =>
          (At("on_arcade_capture", "ret") \/ epoch' # epoch)]_vars

\* one session, two captures of the same identified label at different
\* seconds, one point
C5_Witness ==
  /\ epoch = 1
  /\ "arcade" \in packed
  /\ arcade_score = 1
  /\ Cardinality({f \in files : f.dir = "arcade"
                                  /\ f.name = ReplaceSpaces(OwlLabel)}) = 2

\* the after(2000, ...) callback cb, scheduled in the current entry of
\* its mode, fires in this step
Fires(cb) ==
  /\ TimerDue(cb)
  /\ timers' = Tail(timers)
  /\ Head(timers).epoch = epoch

\* C6: pause compensation: when the resume of a capture of the current
\* session clears frozen, the remaining time is what it was when that
\* capture set frozen, after any sequence of captures, resumes and mode
\* transitions.
C6_PauseCompensation ==
  [][Fires("resume_arcade_update") =>
       /\ ~freeze_arcade'
       /\ arcade_total - (now' - arcade_start_time') = Head(timers).R]_vars

\* in a second session, a resume has left more time on the countdown than
\* a session lasts
C6_Witness ==
  /\ epoch = 2
  /\ "arcade" \in packed
  /\ ~freeze_arcade
  /\ Remaining(arcade_start_time) > arcade_total

\* the final-score display of the current session has scheduled the
\* return to Menu, and that callback fires in this step
FinalDisplayOver == Fires("back_to_menu") /\ hist.finals = 1

\* the countdown tick ends the session in this step
Expires == hist'.expiries = hist.expiries + 1

\* the statements of C7 that hold: the countdown tick observes
\* remaining <= 0 at most once per session, never while frozen, sets
\* running false and begins the final-score display, the only one of the
\* session
ExpiryOnce ==
  /\ [](hist.expiries <= 1 /\ hist.finals <= 1)
  /\ [](hist.expiries = 1 => (hist.finals = 1 /\ ~arcade_running))
  /\ [][Expires =>
          /\ ~freeze_arcade
          /\ Remaining(arcade_start_time) <= 0
          /\ arcade_running /\ ~arcade_running'
          /\ hist.finals = 0
          /\ Head(stack') = "show_arcade_final"
          /\ "arcade" \in packed']_vars

\* C7 as stated: ... and the transition to Menu that follows the expiry
\* happens exactly once, after the fixed display duration.
C7_ExpiryOnceThenMenuAfterDisplay ==
  /\ ExpiryOnce
  /\ [][("arcade" \in packed /\ "menu" \in packed' /\ hist.expiries = 1) =>
          now >= hist.final_at + (DISPLAY_MS \div 1000)]_vars

\* C7, amended: ... and the return to Menu that the final-score display
\* schedules fires once, no earlier than the fixed display duration after
\* the display began, and leaves Menu active and no session running; Back
\* may leave for Menu before that.
C7_ExpiryOnceThenScheduledMenu ==
  /\ ExpiryOnce
  /\ [][(At("show_arcade_final", "snap") /\ stack' # stack) =>
          /\ Len(timers') = Len(timers) + 1
          /\ timers'[Len(timers')].cb = "back_to_menu"
          /\ timers'[Len(timers')].due = hist.final_at + (DISPLAY_MS \div 1000)]_vars
  /\ [][FinalDisplayOver =>
          /\ now >= hist.final_at + (DISPLAY_MS \div 1000)
          /\ packed' = {"menu"}
          /\ ~arcade_running'
          /\ \A i \in 1..Len(timers') :
               ~(timers'[i].cb = "back_to_menu" /\ timers'[i].epoch = epoch)]_vars

\* the countdown of the only session ran out, the final score was shown
\* for the display duration, and the scheduled return brought Menu back
C7_Witness ==
  /\ epoch = 1
  /\ hist.expiries = 1
  /\ packed = {"menu"}
  /\ now >= hist.final_at + (DISPLAY_MS \div 1000)
  /\ timers = <<>>
  /\ Idle

\* Back is pressed in Arcade in this step
BackPressed ==
  /\ Idle /\ "arcade" \in packed
  /\ timers' = timers
  /\ arcade_running' # arcade_running \/ packed' # packed

\* a call of show_arcade_final begins in this step
FinalBegins ==
  /\ stack' # <<>> /\ Head(stack') = "show_arcade_final"
  /\ IF stack = <<>> THEN TRUE ELSE Head(stack) # "show_arcade_final"

\* C8: Back in Arcade: with a session running, running becomes false and
\* show_arcade_final is called, as at expiry, with the Arcade view still
\* active; with no session running, Menu becomes active at once and no
\* final-score display is shown.
C8_EarlyExit ==
  /\ [][BackPressed =>
          IF arcade_running
          THEN /\ ~arcade_running'
               /\ packed' = packed
               /\ stack' = <<"show_arcade_final">> /\ ui_pc' = "lock"
          ELSE /\ packed' = {"menu"}
               /\ ~arcade_running'
               /\ stack' = <<>>
               /\ arcade_label' = arcade_label]_vars
  /\ [][FinalBegins =>
          (arcade_running /\ ~arcade_running' /\ ui_pc' = "lock"
             /\ "arcade" \in packed')]_vars
  /\ []((stack # <<>> /\ Top = "show_arcade_final") =>
          (~arcade_running /\ "arcade" \in packed))
  /\ [][(At("show_arcade_final", "snap") /\ stack' # stack) =>
          (arcade_label' \in {"final", arcade_label}
             /\ timers'[Len(timers')].cb = "back_to_menu")]_vars

\* the final score is being shown after Back, with the countdown not run
\* out
C8_Witness ==
  /\ At("show_arcade_final", "snap")
  /\ hist.expiries = 0
  /\ hist.finals = 1
  /\ Remaining(arcade_start_time) > 0
  /\ packed = {"arcade"}

\* C9: exactly one of Menu, Explore and Arcade is displayed, and a session
\* is running only while Arcade is the one.
C9_OneModeActive ==
  /\ Cardinality(packed) = 1
  /\ packed \subseteq {"menu", "explore", "arcade"}
  /\ arcade_running => packed = {"arcade"}

\* Explore is displayed after an Arcade session was left
C9_Witness ==
  /\ packed = {"explore"}
  /\ arcade_start_time # NoTime
  /\ ~arcade_running
  /\ epoch = 2

\* C11: the loop of the camera thread ends only after the stop signal, and
\* the loop never reads from the frame source once stop() has released
\* it: the release waits for the loop to end.
C11_ReleaseAfterLoopEnds ==
  /\ [](cam_pc = "done" => stopped)
  /\ [][(cam_pc = "read" /\ cam_pc' # "read") => cap = "open"]_vars

\* stop() has released the frame source while the loop, past its test, is
\* about to read
C11_Witness ==
  /\ stopped
  /\ cap = "released"
  /\ cam_pc = "read"

\* the capture request that has arrived in the mode is accepted in this
\* step: the gate is open and the freeze flag is set
Accepts(mode) ==
  IF mode = "explore"
  THEN At("on_explore_capture", "call") /\ ~ExploreGate /\ ui_pc' = "lock"
  ELSE At("on_arcade_capture", "call") /\ ~ArcadeGate /\ ui_pc' = "lock"

\* C12: after an accepted capture request, from a click or from the button
\* poll, no further request is accepted in the same mode before the
\* refractory period has elapsed, also when the accepted request found the
\* buffer empty: a request is never accepted in a mode where one was
\* accepted and no time has passed since.
C12_RefractoryPeriod ==
  [][\A mode \in {"explore", "arcade"} :
        Accepts(mode) => mode \notin recent]_vars

\* a click arrives in Explore, with the flag clear, right after a request
\* that found the buffer empty
C12_Witness ==
  /\ At("on_explore_capture", "call")
  /\ ~freeze_explore
  /\ "explore" \in recent
  /\ global_frame = NoFrame

\* an after(2000, ...) callback fires in this step, after the entry of the
\* mode that scheduled it has been followed by another entry
StaleFires ==
  /\ Idle
  /\ IF timers = <<>> THEN FALSE
     ELSE /\ Head(timers).due <= now
          /\ Head(timers).epoch # epoch
          /\ timers' = Tail(timers)

\* C13: a scheduled callback that fires after the mode visit or session
\* that scheduled it has ended is a no-op: it changes neither the active
\* mode, nor running, the freeze flags, start_time, score or seen labels.
C13_StaleCallbackIsNoOp ==
  [][StaleFires =>
       UNCHANGED <<packed, arcade_running, freeze_explore, freeze_arcade,
                   arcade_start_time, arcade_score, arcade_birds>>]_vars

\* the return to Menu of an earlier Arcade session is due during a visit
\* of Explore
C13_Witness ==
  /\ TimerDue("back_to_menu")
  /\ Head(timers).epoch # epoch
  /\ packed = {"explore"}

\* the result of a capture of the current visit of the mode is on display:
\* the resume that the capture scheduled is pending and the mode is active
Displaying(mode) ==
  /\ mode \in packed
  /\ \E i \in 1..Len(timers) :
       /\ timers[i].epoch = epoch
       /\ timers[i].cb = IF mode = "explore" THEN "resume_explore"
                         ELSE "resume_arcade_update"

\* C14: while the annotated result of an accepted capture is on display,
\* the mode's freeze flag stays set, the live preview does not overwrite
\* the result and no second capture is run, after any sequence of mode
\* exits and re-entries.
C14_FrozenWhileDisplaying ==
  /\ [](Displaying("explore") =>
          (freeze_explore /\ explore_label # "live"))
  /\ [](Displaying("arcade") =>
          (freeze_arcade /\ arcade_label # "live"))
  /\ [][\A mode \in {"explore", "arcade"} :
          Displaying(mode) => ~Accepts(mode)]_vars

\* in a second visit of Explore a result is on display while the resume of
\* a capture of the first visit is due
C14_Witness ==
  /\ Displaying("explore")
  /\ TimerDue("resume_explore")
  /\ Head(timers).epoch # epoch
  /\ freeze_explore

\* an accepted capture has set the flag and its callback is over, in time
\* for a resume to fire before the clock's last second
FrozenExplore ==
  /\ Idle
  /\ freeze_explore
  /\ "explore" \in packed
  /\ now + (DISPLAY_MS \div 1000) <= MaxTime

\* C15: every accepted capture request that sets the freeze flag is
\* followed by the flag being cleared while the mode stays active, for
\* every outcome of the pipeline, a failure of the classifier or of storage
\* included.
C15_ResumeAlwaysComes ==
  [](FrozenExplore => <>(~freeze_explore \/ "explore" \notin packed))

\* the callback of a capture is over with the flag set and nothing
\* scheduled to clear it
C15_Witness ==
  /\ FrozenExplore
  /\ timers = <<>>
  /\ files # {}

\* persisting, classifying, renaming or rendering is in progress in the
\* running callback
Processing == stack # <<>> /\ ui_pc \in {"snap", "classify", "ret"}

\* C16: the event loop holds the lock only for the copy: the lock is free
\* while persisting, classification, renaming or rendering is in progress,
\* the step after an acquire releases it on every path, the empty-buffer
\* return included, and the camera thread waits for the lock only while a
\* copy is being made.
C16_LockOnlyForCopy ==
  /\ [](frame_lock = "ui" => Snapshotting)
  /\ [](Processing => frame_lock # "ui")
  /\ []((cam_pc = "acquire" /\ ~LockFree) => Snapshotting)
  /\ [][(frame_lock = "ui" /\ <<stack, ui_pc>>' # <<stack, ui_pc>>) =>
          (frame_lock' = "free" /\ ui_pc' = "snap")]_vars

\* the camera thread is inside its own with block, publishing, while a
\* capture is at the classifier
C16_Witness ==
  /\ stack # <<>> /\ Top \in CaptureOps
  /\ ui_pc = "classify"
  /\ cam_pc = "publish"
  /\ frame_lock = "cam"

\* C17: while an Arcade session is running the remaining time never
\* exceeds the total duration, that is start_time <= now, after any
\* sequence of captures, resumes, early exits and new sessions.
C17_RemainingAtMostTotal ==
  arcade_running =>
    (arcade_start_time <= now /\ Remaining(arcade_start_time) <= arcade_total)

\* a session is running while the resume of a capture of an earlier session
\* is due
C17_Witness ==
  /\ arcade_running
  /\ TimerDue("resume_arcade_update")
  /\ Head(timers).epoch # epoch

\* the capture on top of the stack gets its final path in this step
Renames ==
  /\ stack # <<>> /\ Top \in CaptureOps
  /\ ui_pc = "classify" /\ ui_pc' = "ret"

\* C18: every accepted capture that found a frame leaves an artifact of its
\* own: its final path is not the path of an earlier capture, also when
\* the mode was left and entered again between the two.
C18_OwnArtifact ==
  [][Renames =>
       /\ FinalPath(ModeOf(Top), loc'.bird_name, loc.ts) \notin files
       /\ Cardinality(files') = Cardinality(files)]_vars

\* in a second visit of the mode a capture is at the classifier while an
\* artifact of the same mode and the same second exists
C18_Witness ==
  /\ stack # <<>> /\ Top \in CaptureOps
  /\ ui_pc = "classify"
  /\ epoch = 2
  /\ \E f \in files :
       f.dir = ModeOf(Top) /\ f.ts = loc.ts /\ f.name # bird

\* C19: at most one refresh callback and at most one poll callback is
\* pending per mode, however many times the modes are entered and left.
C19_OneChainPerCallback ==
  \A cb \in ChainNames : chains[cb] <= 1

\* Explore was entered twice, its refresh ended in between, and both polls
\* of the button are pending
C19_Witness ==
  /\ Idle
  /\ chains["poll_button_explore"] = 2
  /\ chains["update_explore_frame"] = 1

====
